---- MODULE Spec2Model ----
(***************************************************************************)
(* A model of two parts of dg:                                             *)
(*   - the fixpoint solver PointerAnalysis::run() over a PointerSubgraph   *)
(*     (src/analysis/PointsTo/PointerAnalysis.h), specification SpecPA;    *)
(*   - the reaching-definitions graph builder LLVMRDBuilder                *)
(*     (src/llvm/LLVMReachingDefinitions.cpp), specification SpecRD.       *)
(***************************************************************************)
EXTENDS Integers, Sequences, FiniteSets, TLC

VARIABLES
    \* ---- PointerAnalysis ----
    PS,                 \* the pointer state subgraph (kinds, operands, successors)
    psoffset,           \* PSNode::offset of every node (setOffset changes it)
    pointsTo,           \* PSNode::pointsTo of every node
    memory,             \* memory objects: target node -> offset -> pointers
    SCCs,               \* PointerAnalysis::SCCs
    max_offset,         \* PointerAnalysis::max_offset
    preprocess_geps,    \* PointerAnalysis::preprocess_geps
    to_process,         \* PointerAnalysis::to_process
    changed,            \* PointerAnalysis::changed
    last_processed_num, \* run()'s local
    pa_pc,              \* position inside run()
    pa_idx,             \* position of the for loop inside to_process
    \* ---- LLVMRDBuilder ----
    M,                  \* the LLVM module and the points-to information (input)
    rdg,                \* the RDNodes created so far: successors, def-sites, names
    nodes_map,          \* LLVMRDBuilder::nodes_map
    subgraphs_map,      \* LLVMRDBuilder::subgraphs_map
    mapping,            \* LLVMRDBuilder::mapping
    stack,              \* the call stack of the builder (frames with their locals)
    status,             \* "init", "running", "done", "abort" (fatal error) or "crash"
    rd_root,            \* what build() returned
    built_blocks        \* history: the built_blocks map of every finished buildFunction

pavars == <<PS, psoffset, pointsTo, memory, SCCs, max_offset, preprocess_geps,
            to_process, changed, last_processed_num, pa_pc, pa_idx>>

rdvars == <<M, rdg, nodes_map, subgraphs_map, mapping, stack, status, rd_root,
            built_blocks>>

vars == <<pavars, rdvars>>

\* no PointerAnalysis object exists (the builder runs alone)
PAIdle ==
    /\ PS = <<>> /\ psoffset = <<>> /\ pointsTo = <<>> /\ memory = <<>>
    /\ SCCs = {} /\ max_offset = 0 /\ preprocess_geps = FALSE
    /\ to_process = <<>> /\ changed = <<>> /\ last_processed_num = 0
    /\ pa_pc = "idle" /\ pa_idx = 0

\* no LLVMRDBuilder object exists (the solver runs alone)
RDIdle ==
    /\ M = <<>> /\ rdg = <<>> /\ nodes_map = <<>> /\ subgraphs_map = <<>>
    /\ mapping = <<>> /\ stack = <<>> /\ status = "idle" /\ rd_root = 0
    /\ built_blocks = <<>>

\* ------------------------------------------------------------------------
\* Small helpers
\* ------------------------------------------------------------------------

Range(s) == {s[i] : i \in 1..Len(s)}

NoDup(s) == \A i, j \in 1..Len(s) : i # j => s[i] # s[j]

\* ------------------------------------------------------------------------
\* Offsets and pointers
\* ------------------------------------------------------------------------

\* width of an offset in the model (uint64_t in the program)
OffsetBits == 2

OffsetMod == 2 ^ OffsetBits

\* the all-ones sentinel
UNKNOWN_OFFSET == OffsetMod - 1

Offsets == 0..UNKNOWN_OFFSET

Ptr(t, o) == [target |-> t, offset |-> o]

\* ------------------------------------------------------------------------
\* The pointer subgraph
\* ------------------------------------------------------------------------

PSRoot == 1

PSN(kind, ops, succ, off) == [kind |-> kind, ops |-> ops, succ |-> succ, off |-> off]

PSNodes(g) == 1..Len(g)

\* PSNode kinds with a transfer function in the model
PSKinds == {"ALLOC", "CAST", "GEP", "PHI", "LOAD", "STORE"}

\* The input graphs; k is the offset of their GEP nodes.  STORE has operands
\* <<value, address>>.
PSGraphs(k) ==
    << \* straight line: a; g = gep a, k; c = cast g
       << PSN("ALLOC", <<>>, <<2>>, 0), PSN("GEP", <<1>>, <<3>>, k),
          PSN("CAST", <<2>>, <<>>, 0) >>,
       \* gep in a loop: a; p = phi(a, g); g = gep p, k; c = cast g
       << PSN("ALLOC", <<>>, <<2>>, 0), PSN("PHI", <<1, 3>>, <<3>>, 0),
          PSN("GEP", <<2>>, <<2, 4>>, k), PSN("CAST", <<3>>, <<>>, 0) >>,
       \* gep in a one-node loop
       << PSN("ALLOC", <<>>, <<2>>, 0), PSN("GEP", <<1>>, <<2, 3>>, k),
          PSN("CAST", <<2>>, <<>>, 0) >>,
       \* store then load
       << PSN("ALLOC", <<>>, <<2>>, 0), PSN("ALLOC", <<>>, <<3>>, 0),
          PSN("STORE", <<2, 1>>, <<4>>, 0), PSN("LOAD", <<1>>, <<>>, 0) >>,
       \* load then store
       << PSN("ALLOC", <<>>, <<2>>, 0), PSN("ALLOC", <<>>, <<3>>, 0),
          PSN("LOAD", <<1>>, <<4>>, 0), PSN("STORE", <<2, 1>>, <<>>, 0) >>,
       \* a; b; x = load b; p = load a; store a -> p; store b -> a
       << PSN("ALLOC", <<>>, <<2>>, 0), PSN("ALLOC", <<>>, <<3>>, 0),
          PSN("LOAD", <<2>>, <<4>>, 0), PSN("LOAD", <<1>>, <<5>>, 0),
          PSN("STORE", <<1, 4>>, <<6>>, 0), PSN("STORE", <<2, 1>>, <<>>, 0) >>,
       \* diamond: a; b; (c = cast a | d = gep b, k); e = phi(c, d)
       << PSN("ALLOC", <<>>, <<2>>, 0), PSN("ALLOC", <<>>, <<3, 4>>, 0),
          PSN("CAST", <<1>>, <<5>>, 0), PSN("GEP", <<2>>, <<5>>, k),
          PSN("PHI", <<3, 4>>, <<>>, 0) >>,
       \* store through a gep, loads at both offsets
       << PSN("ALLOC", <<>>, <<2>>, 0), PSN("GEP", <<1>>, <<3>>, k),
          PSN("STORE", <<1, 2>>, <<4>>, 0), PSN("LOAD", <<2>>, <<5>>, 0),
          PSN("LOAD", <<1>>, <<>>, 0) >>,
       \* two geps in a loop: a; p = phi(a, h); g = gep p, k; h = gep g, 1
       << PSN("ALLOC", <<>>, <<2>>, 0), PSN("PHI", <<1, 4>>, <<3>>, 0),
          PSN("GEP", <<2>>, <<4>>, k), PSN("GEP", <<3>>, <<2>>, 1) >>,
       \* load in a loop that a later store of the loop feeds
       << PSN("ALLOC", <<>>, <<2>>, 0), PSN("ALLOC", <<>>, <<3>>, 0),
          PSN("LOAD", <<1>>, <<4>>, 0), PSN("STORE", <<2, 1>>, <<3, 5>>, 0),
          PSN("GEP", <<3>>, <<>>, k) >>,
       \* a gep in a one-node loop before a loop of a phi and a gep
       << PSN("ALLOC", <<>>, <<2>>, 0), PSN("GEP", <<1>>, <<2, 3>>, k),
          PSN("PHI", <<2, 4>>, <<4>>, 0), PSN("GEP", <<3>>, <<3>>, 1) >>
    >>

NumPSGraphs == Len(PSGraphs(0))

\* PointerSubgraph::getNodes: the nodes reachable from the seeds along the
\* successor edges, seeds first, in BFS order, each once.
RECURSIVE PushSuccs(_, _, _)
PushSuccs(ss, queue, visited) ==
    IF ss = <<>> THEN [queue |-> queue, visited |-> visited]
    ELSE IF Head(ss) \in visited THEN PushSuccs(Tail(ss), queue, visited)
    ELSE PushSuccs(Tail(ss), Append(queue, Head(ss)), visited \cup {Head(ss)})

RECURSIVE BFS(_, _, _, _)
BFS(g, queue, visited, cont) ==
    IF queue = <<>> THEN cont
    ELSE LET cur == Head(queue)
             r == PushSuccs(g[cur].succ, Tail(queue), visited)
         IN BFS(g, r.queue, r.visited, Append(cont, cur))

getNodes(g, seeds) ==
    LET r == PushSuccs(seeds, <<>>, {})
    IN BFS(g, r.queue, r.visited, <<>>)

\* the nodes reachable from n (n included)
Reach(g, n) == Range(getNodes(g, <<n>>))

\* SCC<PSNode>::compute(root): the strongly connected components of the part
\* reachable from the root
SCCcompute(g) ==
    LET R == Reach(g, PSRoot)
    IN { {m \in R : m \in Reach(g, n) /\ n \in Reach(g, m)} : n \in R }

\* ------------------------------------------------------------------------
\* Transfer functions (PointerAnalysis::processNode and the hooks)
\* ------------------------------------------------------------------------

EmptyMemory(g) == [t \in PSNodes(g) |-> [o \in Offsets |-> {}]]

\* (mutant) the sum is not compared with max_offset
GepOffsetUnbounded(off, noff, maxoff) ==
    IF off = UNKNOWN_OFFSET \/ noff = UNKNOWN_OFFSET THEN UNKNOWN_OFFSET
    ELSE (off + noff) % OffsetMod

\* the offset a GEP with offset noff gives a pointer with offset off
GepOffset(off, noff, maxoff) ==
    IF off = UNKNOWN_OFFSET \/ noff = UNKNOWN_OFFSET THEN UNKNOWN_OFFSET
    ELSE LET new_offset == (off + noff) % OffsetMod
         IN IF new_offset > maxoff THEN UNKNOWN_OFFSET ELSE new_offset

\* the pointers a load through ptr sees in the memory objects mem
LoadedFrom(mem, ptr) ==
    IF ptr.offset = UNKNOWN_OFFSET
    THEN UNION {mem[ptr.target][o] : o \in Offsets}
    ELSE mem[ptr.target][ptr.offset]

\* what the transfer function of node n adds to n's points-to set
Transferred(g, offs, pts, mem, maxoff, n) ==
    LET nd == g[n]
    IN CASE nd.kind = "ALLOC" -> {Ptr(n, 0)}
         [] nd.kind = "CAST"  -> pts[nd.ops[1]]
         [] nd.kind = "GEP"   ->
                {Ptr(p.target, GepOffset(p.offset, offs[n], maxoff)) : p \in pts[nd.ops[1]]}
         [] nd.kind = "PHI"   -> UNION {pts[nd.ops[i]] : i \in 1..Len(nd.ops)}
         [] nd.kind = "LOAD"  -> UNION {LoadedFrom(mem, p) : p \in pts[nd.ops[1]]}
         [] OTHER -> {}

\* the memory objects after the transfer function of node n (a STORE writes
\* the pointers of its value operand at every pointer of its address operand)
Stored(g, pts, mem, n) ==
    LET nd == g[n]
    IN IF nd.kind # "STORE" THEN mem
       ELSE [t \in DOMAIN mem |-> [o \in Offsets |->
                IF Ptr(t, o) \in pts[nd.ops[2]]
                THEN mem[t][o] \cup pts[nd.ops[1]]
                ELSE mem[t][o]]]

\* processNode(n): the new points-to sets and memory, and whether anything grew
processNode(g, offs, pts, mem, maxoff, n) ==
    LET npts == [pts EXCEPT ![n] = @ \cup Transferred(g, offs, pts, mem, maxoff, n)]
        nmem == Stored(g, pts, mem, n)
    IN [pts |-> npts, mem |-> nmem, changed |-> (npts # pts \/ nmem # mem)]

\* the optional hooks of the base class
beforeProcessed(n) == FALSE

afterProcessed(n) == FALSE

\* ------------------------------------------------------------------------
\* PointerAnalysis
\* ------------------------------------------------------------------------

\* (mutant) the GEPs of components of one node are forced as well
preprocessGEPsAnySize(g, sccs, offs) ==
    [n \in DOMAIN offs |->
        IF g[n].kind = "GEP" /\ \E scc \in sccs : n \in scc
        THEN UNKNOWN_OFFSET
        ELSE offs[n]]

\* (mutant) only components of more than two nodes are looked at
preprocessGEPsOverTwo(g, sccs, offs) ==
    [n \in DOMAIN offs |->
        IF g[n].kind = "GEP" /\ \E scc \in sccs : Cardinality(scc) > 2 /\ n \in scc
        THEN UNKNOWN_OFFSET
        ELSE offs[n]]

\* preprocessGEPs: the offsets after forcing the GEPs of every component of
\* more than one node to UNKNOWN_OFFSET
preprocessGEPs(g, sccs, offs) ==
    [n \in DOMAIN offs |->
        IF g[n].kind = "GEP" /\ \E scc \in sccs : Cardinality(scc) > 1 /\ n \in scc
        THEN UNKNOWN_OFFSET
        ELSE offs[n]]

\* (mutant) enqueue pushes the node twice
enqueueTwice(chg, n) == Append(Append(chg, n), n)

\* enqueue(n)
enqueue(chg, n) == Append(chg, n)

\* (mutant) the for loop enqueues the node whatever the transfer reported
EnqueueAlways(enq, chg, cur) == enqueue(chg, cur)

\* the end of the body of run()'s for loop
EnqueueIfChanged(enq, chg, cur) == IF enq THEN enqueue(chg, cur) ELSE chg

\* (mutant) to_process is not cleared at the end of an iteration
NextToProcessNoClear(g, tp, chg) == IF chg # <<>> THEN getNodes(g, chg) ELSE tp

\* to_process after an iteration: cleared, then refilled from changed
NextToProcess(g, tp, chg) == IF chg # <<>> THEN getNodes(g, chg) ELSE <<>>

\* the constructor
InitPA ==
    /\ \E i \in 1..NumPSGraphs, k \in Offsets : PS = PSGraphs(k)[i]
    /\ psoffset = [n \in PSNodes(PS) |-> PS[n].off]
    /\ pointsTo = [n \in PSNodes(PS) |-> {}]
    /\ memory = EmptyMemory(PS)
    /\ max_offset \in Offsets
    /\ preprocess_geps \in BOOLEAN
    /\ SCCs = IF preprocess_geps THEN SCCcompute(PS) ELSE {}
    /\ to_process = <<>>
    /\ changed = <<>>
    /\ last_processed_num = 0
    /\ pa_pc = "init"
    /\ pa_idx = 0
    /\ RDIdle

\* run(), up to the first for loop
RunStart ==
    /\ pa_pc = "init"
    /\ psoffset' = IF preprocess_geps THEN preprocessGEPs(PS, SCCs, psoffset) ELSE psoffset
    /\ to_process' = getNodes(PS, <<PSRoot>>)
    /\ last_processed_num' = Len(to_process')
    /\ changed' = <<>>
    /\ pa_idx' = 1
    /\ pa_pc' = "for"
    /\ UNCHANGED <<PS, pointsTo, memory, SCCs, max_offset, preprocess_geps>>
    /\ UNCHANGED rdvars

\* one turn of the for loop over to_process
RunProcessNode ==
    /\ pa_pc = "for"
    /\ pa_idx <= Len(to_process)
    /\ LET cur == to_process[pa_idx]
           r == processNode(PS, psoffset, pointsTo, memory, max_offset, cur)
           enq == beforeProcessed(cur) \/ r.changed \/ afterProcessed(cur)
       IN /\ pointsTo' = r.pts
          /\ memory' = r.mem
          /\ changed' = EnqueueIfChanged(enq, changed, cur)
    /\ pa_idx' = pa_idx + 1
    /\ UNCHANGED <<PS, psoffset, SCCs, max_offset, preprocess_geps, to_process,
                   last_processed_num, pa_pc>>
    /\ UNCHANGED rdvars

\* the end of one iteration of the do/while loop, the loop test, and either
\* the head of the next iteration or the end of run()
RunEndIteration ==
    /\ pa_pc = "for"
    /\ pa_idx > Len(to_process)
    /\ LET tp == NextToProcess(PS, to_process, changed)
       IN IF changed # <<>> /\ (tp = <<>> \/ Len(tp) < Len(changed))
          THEN \* one of the assertions after getNodes fails
               /\ to_process' = tp
               /\ pa_pc' = "assert_failed"
               /\ UNCHANGED <<changed, last_processed_num, pa_idx>>
          ELSE IF tp # <<>>
          THEN /\ to_process' = tp
               /\ last_processed_num' = Len(tp)
               /\ changed' = <<>>
               /\ pa_idx' = 1
               /\ pa_pc' = "for"
          ELSE /\ to_process' = tp
               /\ pa_pc' = IF changed = <<>> THEN "done" ELSE "assert_failed"
               /\ UNCHANGED <<changed, last_processed_num, pa_idx>>
    /\ UNCHANGED <<PS, psoffset, pointsTo, memory, SCCs, max_offset, preprocess_geps>>
    /\ UNCHANGED rdvars

NextPA == RunStart \/ RunProcessNode \/ RunEndIteration

SpecPA == InitPA /\ [][NextPA]_vars

\* ------------------------------------------------------------------------
\* Claims about PointerAnalysis::run()
\* ------------------------------------------------------------------------

\* whether applying beforeProcessed, processNode and afterProcessed to n now
\* would report growth
WouldGrow(n) ==
    \/ beforeProcessed(n)
    \/ processNode(PS, psoffset, pointsTo, memory, max_offset, n).changed
    \/ afterProcessed(n)

\* the GEP nodes that lie on a cycle through another node
GepsInCycles ==
    {n \in PSNodes(PS) : PS[n].kind = "GEP" /\
        \E scc \in SCCcompute(PS) : n \in scc /\ Cardinality(scc) > 1}

\* C1 (quiescence): when run() has returned, no node reachable from the root
\* would report growth if before/process/after were applied to it again.
C1_Quiescence ==
    pa_pc = "done" => \A n \in Reach(PS, PSRoot) : ~WouldGrow(n)

\* the finite universe the points-to sets and memory objects draw from
PtrUniverse == {Ptr(t, o) : t \in PSNodes(PS), o \in Offsets}

\* how many pointers the points-to sets and memory objects hold together
Grown ==
    Cardinality({x \in PSNodes(PS) \X PtrUniverse : x[2] \in pointsTo[x[1]]})
    + Cardinality({x \in PSNodes(PS) \X Offsets \X PtrUniverse :
                      x[3] \in memory[x[1]][x[2]]})

\* how many they can hold
Capacity ==
    Cardinality(PSNodes(PS) \X PtrUniverse)
    + Cardinality(PSNodes(PS) \X Offsets \X PtrUniverse)

\* the steps run() has left in the current iteration
StepsLeft ==
    CASE pa_pc = "init" -> Len(PS) + 2
      [] pa_pc = "for"  -> Len(to_process) - pa_idx + 2
      [] OTHER -> 0

\* a measure that every step of run() decreases: the room left in the sets
\* (one more while an iteration is owed to a non-empty changed), then the
\* steps left in the iteration
RunRank ==
    (Capacity - Grown + (IF changed # <<>> THEN 1 ELSE 0)) * (Len(PS) + 3) + StepsLeft

\* C2 (termination): run() returns on every input graph, also without GEP
\* preprocessing and with GEP nodes inside cycles: every step of run()
\* decreases the natural number RunRank, run() can always take a step until
\* it has returned, and it never stops at a failed assertion.
C2_RunTerminates ==
    /\ [][RunRank' < RunRank]_vars
    /\ [](RunRank >= 0)
    /\ [](pa_pc \in {"init", "for", "done"})
    /\ [](pa_pc = "for" => pa_idx \in 1..(Len(to_process) + 1))

\* run() has returned on a graph with a GEP of a known non-zero offset in a
\* cycle, without preprocessing, after the GEP collected several offsets
C2_Witness ==
    /\ pa_pc = "done"
    /\ ~preprocess_geps
    /\ \E n \in GepsInCycles :
          /\ psoffset[n] \notin {0, UNKNOWN_OFFSET}
          /\ Cardinality(pointsTo[n]) >= 3

\* C3 (monotonicity): no step of run() removes a pointer from a points-to
\* set, and a step appends a node to changed only when it is the node being
\* processed and its transfer grew a points-to set or a memory object.
C3_Monotone ==
    [][ /\ \A n \in PSNodes(PS) : pointsTo[n] \subseteq pointsTo'[n]
        /\ (pa_pc = "for" /\ pa_pc' = "for" /\ Len(changed') > Len(changed)) =>
              /\ pa_idx <= Len(to_process)
              /\ changed' = Append(changed, to_process[pa_idx])
              /\ (pointsTo' # pointsTo \/ memory' # memory) ]_vars

\* inside an iteration, some node was enqueued after growing to two pointers
\* and another processed node was not enqueued
C3_Witness ==
    /\ pa_pc = "for"
    /\ \E n \in Range(changed) : Cardinality(pointsTo[n]) >= 2
    /\ \E i \in 1..(pa_idx - 1) : to_process[i] \notin Range(changed)

\* ========================================================================
\* LLVMRDBuilder
\* ========================================================================

\* ------------------------------------------------------------------------
\* The LLVM module and the points-to information the builder reads
\* ------------------------------------------------------------------------

\* LLVM values are triples: an instruction is <<function, block, index>>
InstId(f, b, i) == <<f, b, i>>

GlobalId(j) == <<"@global", 0, j>>

FuncId(f) == <<f, 0, 0>>

\* a value nothing was built for (a function argument)
ArgId == <<"%arg", 0, 0>>

\* the null llvm::Value / llvm::Function pointer
NullValue == <<"", 0, 0>>

\* targets of the two special points-to nodes
NULLPTR == <<"NULLPTR", 0, 0>>

UNKNOWN_MEMORY == <<"UNKNOWN_MEMORY", 0, 0>>

\* Pointer::isNull
isNull(ptr) == ptr.target = NULLPTR

\* PSSNode::getUserData: the LLVM value a points-to node stands for; the
\* special nodes stand for none
getUserData(target) ==
    IF target \in {NULLPTR, UNKNOWN_MEMORY} THEN NullValue ELSE target

\* instructions; pts is the points-to set of the address operand of a store
\* or of the called value of a call through a pointer, in iteration order;
\* size is getAllocatedSize of the stored value's type (0: not sized)
Inst(op, callee, pts, size) == [op |-> op, callee |-> callee, pts |-> pts, size |-> size]

Alloca == Inst("alloca", "", <<>>, 0)

Ret == Inst("ret", "", <<>>, 0)

\* any instruction the builder has no case for (load, br, ...)
Other == Inst("other", "", <<>>, 0)

\* a call of llvm.dbg.value (DbgValueInst)
Dbg == Inst("dbg", "", <<>>, 0)

Store(pts, size) == Inst("store", "", pts, size)

Call(f) == Inst("call", f, <<>>, 0)

CallPtr(pts) == Inst("callptr", "", pts, 0)

Block(insts, succs) == [insts |-> insts, succs |-> succs]

\* functions that are declarations (no basic block) in every module
Declarations == {"malloc", "calloc", "realloc", "extern_fn", "llvm.memset"}

\* llvm::Function::isIntrinsic: the name starts with "llvm."
isIntrinsic(f) == f \in {"llvm.memset"}

\* the first alloca of main, the target of most stores
A0 == Ptr(InstId("main", 1, 1), 0)

PF == Ptr(FuncId("f"), 0)

PG == Ptr(FuncId("g"), 0)

\* instructions that call neither f nor g
LocalInsts ==
    { Alloca, Other, Dbg,
      Store(<<A0>>, 1), Store(<<A0>>, 0),
      Store(<<Ptr(A0.target, UNKNOWN_OFFSET)>>, 1),
      Store(<<A0, Ptr(GlobalId(1), 1)>>, 1),
      Store(<<Ptr(GlobalId(1), 0)>>, 2),
      Store(<<Ptr(NULLPTR, 0)>>, 1),
      Store(<<Ptr(NULLPTR, 0), A0>>, 1),
      Store(<<Ptr(ArgId, 0), A0>>, 1),
      Store(<<A0, Ptr(UNKNOWN_MEMORY, UNKNOWN_OFFSET)>>, 1),
      Store(<<>>, 1),
      Call("malloc"), Call("extern_fn"), Call("llvm.memset"), Call("realloc"),
      Call("main"),
      CallPtr(<<>>), CallPtr(<<Ptr(NULLPTR, 0), Ptr(NULLPTR, 1)>>),
      CallPtr(<<Ptr(FuncId("malloc"), 0)>>),
      CallPtr(<<Ptr(FuncId("main"), 0), Ptr(NULLPTR, 0)>>) }

\* instructions that call f or g
CallInsts ==
    { Call("f"), Call("g"),
      CallPtr(<<PF>>), CallPtr(<<PF, PG>>), CallPtr(<<PG, PF>>),
      CallPtr(<<Ptr(NULLPTR, 0), PF>>),
      CallPtr(<<PF, Ptr(UNKNOWN_MEMORY, 0)>>),
      CallPtr(<<Ptr(UNKNOWN_MEMORY, 0), PG>>),
      CallPtr(<<PF, Ptr(FuncId("extern_fn"), 0)>>) }

\* bodies of main around an instruction x
MainShapes(x) ==
    << \* one block
       << Block(<<Alloca, x, Ret>>, <<>>) >>,
       \* A -> B -> C where B emits nothing
       << Block(<<Alloca, x, Other>>, <<2>>), Block(<<Other>>, <<3>>),
          Block(<<Ret>>, <<>>) >>,
       \* a second block without predecessor
       << Block(<<Alloca, x, Ret>>, <<>>), Block(<<Store(<<A0>>, 1), Ret>>, <<>>) >>,
       \* a diamond, one arm emits nothing
       << Block(<<Alloca, Other>>, <<2, 3>>), Block(<<x, Other>>, <<4>>),
          Block(<<Dbg, Other>>, <<4>>), Block(<<Ret>>, <<>>) >>,
       \* a loop without exit
       << Block(<<Alloca, Other>>, <<2>>), Block(<<x, Other>>, <<2>>) >>,
       \* a loop with an exit
       << Block(<<Alloca, Other>>, <<2>>), Block(<<x, Other>>, <<2, 3>>),
          Block(<<Ret>>, <<>>) >>,
       \* a call of g before x
       << Block(<<Call("g"), x, Ret>>, <<>>) >>
    >>

NumMainShapes == Len(MainShapes(Other))

\* bodies of f
FBodies ==
    << << Block(<<Ret>>, <<>>) >>,
       << Block(<<Call("f"), Ret>>, <<>>) >>,
       << Block(<<Call("g"), Ret>>, <<>>) >>,
       << Block(<<Alloca, Store(<<Ptr(InstId("f", 1, 1), 0), A0>>, 1), Ret>>, <<>>) >>,
       << Block(<<Other>>, <<2, 3>>), Block(<<Call("f"), Other>>, <<3>>),
          Block(<<Ret>>, <<>>) >>,
       << Block(<<Other>>, <<1>>) >>
    >>

\* bodies of g
GBodies ==
    << << Block(<<Ret>>, <<>>) >>,
       << Block(<<Call("f"), Ret>>, <<>>) >>,
       << Block(<<Alloca, Ret>>, <<>>) >>
    >>

\* how many global variables a module has at most
MaxGlobals == 2

Module(ng, main, f, g) ==
    [globals |-> ng,
     funcs |-> [n \in {"main", "f", "g"} \cup Declarations |->
                  CASE n = "main" -> main
                    [] n = "f" -> f
                    [] n = "g" -> g
                    [] OTHER -> <<>>]]

\* the input modules
Modules ==
    { Module(ng, MainShapes(x)[s], FBodies[1], GBodies[1]) :
        ng \in 0..MaxGlobals, s \in 1..NumMainShapes, x \in LocalInsts }
    \cup
    { Module(1, MainShapes(x)[s], FBodies[i], GBodies[j]) :
        s \in {1, 6, 7}, x \in CallInsts, i \in 1..Len(FBodies), j \in 1..Len(GBodies) }
    \cup
    \* main is a declaration; there is no main
    { Module(1, <<>>, FBodies[1], GBodies[1]),
      [globals |-> 1, funcs |-> [n \in {"f"} |-> FBodies[1]]] }

\* the instruction with identifier v
InstOf(v) == M.funcs[v[1]][v[2]].insts[v[3]]

\* ------------------------------------------------------------------------
\* The builder's state as one record, and the primitives on it
\* ------------------------------------------------------------------------

\* std::map: lookup with operator[] gives the default for a missing key
MapGet(m, k, default) == IF k \in DOMAIN m THEN m[k] ELSE default

MapPut(m, k, v) == [x \in DOMAIN m \cup {k} |-> IF x = k THEN v ELSE m[x]]

EmptyMap == [x \in {} |-> 0]

\* the null RDNode pointer
NullNode == 0

EmptyGraph == [n |-> 0, succ |-> <<>>, defs |-> <<>>, name |-> <<>>]

Cur ==
    [g |-> rdg, nodes_map |-> nodes_map, subgraphs_map |-> subgraphs_map,
     mapping |-> mapping, stack |-> stack, status |-> status, root |-> rd_root,
     built |-> built_blocks]

Becomes(st) ==
    /\ rdg' = st.g
    /\ nodes_map' = st.nodes_map
    /\ subgraphs_map' = st.subgraphs_map
    /\ mapping' = st.mapping
    /\ stack' = st.stack
    /\ status' = st.status
    /\ rd_root' = st.root
    /\ built_blocks' = st.built
    /\ UNCHANGED M

\* setName: the prefix and the value a node is named after (the start node
\* of a block is named after its block)
Name(prefix, v) == [prefix |-> prefix, v |-> v]

\* new RDNode(), with its name
newNode(st, name) ==
    [st EXCEPT !.g = [n |-> @.n + 1, succ |-> Append(@.succ, <<>>),
                      defs |-> Append(@.defs, {}), name |-> Append(@.name, name)]]

\* the node the next newNode(st, _) creates
Fresh(st) == st.g.n + 1

\* RDNode::addSuccessor
addSuccessor(st, a, b) == [st EXCEPT !.g.succ[a] = Append(@, b)]

\* RDNode::addDef
addDef(st, node, target, offset, size, strong) ==
    [st EXCEPT !.g.defs[node] = @ \cup
        {[target |-> target, offset |-> offset, size |-> size, strong |-> strong]}]

\* LLVMRDBuilder::addNode
addNode(st, val, node) == [st EXCEPT !.nodes_map = MapPut(@, val, node)]

abort(st) == [st EXCEPT !.status = "abort"]

crash(st) == [st EXCEPT !.status = "crash"]

Top(st) == st.stack[Len(st.stack)]

Pop(st) == [st EXCEPT !.stack = SubSeq(@, 1, Len(@) - 1)]

Push(st, fr) == [st EXCEPT !.stack = Append(@, fr)]

SetTop(st, fr) == [st EXCEPT !.stack[Len(st.stack)] = fr]

\* ------------------------------------------------------------------------
\* createAlloc, createStore
\* ------------------------------------------------------------------------

\* createAlloc; the node it returns is Fresh(st)
createAlloc(st, inst) == addNode(newNode(st, Name("", inst)), inst, Fresh(st))

\* (mutant) a store is a strong update when one target is not null
StrongUpdateNonNull(pts) == Len(SelectSeq(pts, LAMBDA p : ~isNull(p))) = 1

\* the strong update flag of the def-sites of a store
StrongUpdate(pts) == Len(pts) = 1

\* the size of a def-site
DefSize(size) == IF size = 0 THEN UNKNOWN_OFFSET ELSE size

\* the loop of createStore over the pointers ptrs that are left of pts.
\* Printing *ptrVal for a null ptrVal is undefined: ub says whether that
\* crashes or prints something and goes on.
RECURSIVE storeDefs(_, _, _, _, _)
storeDefs(st, node, ins, ptrs, ub) ==
    IF ptrs = <<>> THEN st
    ELSE LET ptr == Head(ptrs)
             ptrVal == getUserData(ptr.target)
             ptrNode == MapGet(st.nodes_map, ptrVal, NullNode)
             st1 == [st EXCEPT !.nodes_map = MapPut(@, ptrVal, ptrNode)]
         IN IF isNull(ptr) THEN storeDefs(st, node, ins, Tail(ptrs), ub)
            ELSE IF ptrNode = NullNode
            THEN IF ptrVal = NullValue /\ ub = "crash" THEN crash(st1)
                 ELSE storeDefs(st1, node, ins, Tail(ptrs), ub)
            ELSE storeDefs(addDef(st1, node, ptrNode, ptr.offset, DefSize(ins.size),
                                  StrongUpdate(ins.pts)),
                           node, ins, Tail(ptrs), ub)

\* createStore; the node it returns is Fresh(st)
createStore(st, inst, ub) ==
    storeDefs(createAlloc(st, inst), Fresh(st), InstOf(inst), InstOf(inst).pts, ub)

\* ------------------------------------------------------------------------
\* buildBlock
\* ------------------------------------------------------------------------

\* (mutant) the current node is not made a successor of the previous one
endInstNoEdge(st, nd) ==
    LET fr == Top(st)
    IN SetTop(st, [fr EXCEPT !.node = nd, !.i = @ + 1])

\* the end of the loop body of buildBlock for an instruction that made the
\* current node nd (the node it had, when it emitted nothing)
endInst(st, nd) ==
    LET fr == Top(st)
        st1 == IF fr.prev_node # NullNode /\ fr.prev_node # nd
               THEN addSuccessor(st, fr.prev_node, nd) ELSE st
    IN SetTop(st1, [fr EXCEPT !.node = nd, !.i = @ + 1])

\* the start of the loop body: mapping[&Inst] = node; prev_node = node
beginInst(st) ==
    LET fr == Top(st)
    IN SetTop([st EXCEPT !.mapping = MapPut(@, InstId(fr.f, fr.b, fr.i), fr.node)],
              [fr EXCEPT !.prev_node = fr.node])

\* (mutant) the second node of the pair does not become prev_node
endCallKeepPrev(st, first, second) ==
    endInst(addSuccessor(st, Top(st).prev_node, first), second)

\* the end of the case Instruction::Call with the pair createCall returned
endCall(st, first, second) ==
    LET fr == Top(st)
        st1 == addSuccessor(st, fr.prev_node, first)
    IN endInst(SetTop(st1, [fr EXCEPT !.prev_node = second]), second)

\* ------------------------------------------------------------------------
\* createCallToFunction, buildFunction
\* ------------------------------------------------------------------------

\* (mutant) buildFunction does not record the subgraph before the blocks
recordSubgraphLate(st, F, root, ret) == st

\* subgraphs_map[&F] = Subgraph(root, ret)
recordSubgraph(st, F, root, ret) ==
    [st EXCEPT !.subgraphs_map = MapPut(@, F, [root |-> root, ret |-> ret])]

\* buildFunction up to its first loop: the two nodes, the record, the frame
enterFunction(st, F) ==
    LET root == Fresh(st)
        ret == root + 1
        st1 == newNode(st, Name("ENTRY ", FuncId(F)))
        st2 == newNode(st1, Name("RET (unified) ", FuncId(F)))
    IN Push(recordSubgraph(st2, F, root, ret),
            [t |-> "func", f |-> F, root |-> root, ret |-> ret, bi |-> 1,
             built |-> EmptyMap, first |-> NullNode])

\* (mutant) inside the loop over several targets the return node of a
\* target is not linked to the join node
returnPairNoJoin(st, ctx, inst, first, second) ==
    CASE ctx = "direct" -> endCall(addNode(st, inst, first), first, second)
      [] ctx = "single" -> endCall(st, first, second)
      [] ctx = "multi" -> addSuccessor(st, Top(st).call_funcptr, first)

\* what the caller of createCallToFunction does with the pair it returns:
\* createCall for a direct call ("direct"), for a pointer with one target
\* ("single") or inside its loop over several targets ("multi")
returnPair(st, ctx, inst, first, second) ==
    CASE ctx = "direct" -> endCall(addNode(st, inst, first), first, second)
      [] ctx = "single" -> endCall(st, first, second)
      [] ctx = "multi" ->
            LET fr == Top(st)
            IN addSuccessor(addSuccessor(st, fr.call_funcptr, first), second, fr.ret_call)

\* (mutant) the call node gets the unified return node of the callee as its
\* successor
wireCallToRet(st, ctx, inst, F, callNode, returnNode) ==
    LET subg == MapGet(st.subgraphs_map, F, [root |-> NullNode, ret |-> NullNode])
    IN IF subg.root = NullNode \/ subg.ret = NullNode THEN abort(st)
       ELSE returnPair(addSuccessor(addSuccessor(st, callNode, subg.ret),
                                    subg.ret, returnNode),
                       ctx, inst, callNode, returnNode)

\* the end of createCallToFunction: the assertion and the two edges
wireCall(st, ctx, inst, F, callNode, returnNode) ==
    LET subg == MapGet(st.subgraphs_map, F, [root |-> NullNode, ret |-> NullNode])
    IN IF subg.root = NullNode \/ subg.ret = NullNode THEN abort(st)
       ELSE returnPair(addSuccessor(addSuccessor(st, callNode, subg.root),
                                    subg.ret, returnNode),
                       ctx, inst, callNode, returnNode)

\* createCallToFunction.  Building the function of a null pointer is
\* undefined: ub says whether it crashes at once ("crash") or after the
\* first statements of buildFunction.
createCallToFunction(st, inst, F, ctx, ub) ==
    LET returnNode == Fresh(st)
        callNode == returnNode + 1
        st1 == newNode(st, Name("RET", inst))
        st2 == newNode(st1, Name("", inst))
        subg == MapGet(st.subgraphs_map, F, [root |-> NullNode, ret |-> NullNode])
    IN IF subg.root # NullNode THEN wireCall(st2, ctx, inst, F, callNode, returnNode)
       ELSE IF F = NullValue[1]
       THEN IF ub = "crash" THEN crash(st2) ELSE crash(enterFunction(st2, F))
       ELSE enterFunction(
                Push(st2, [t |-> "callfn", inst |-> inst, F |-> F, ctx |-> ctx,
                           callNode |-> callNode, returnNode |-> returnNode]), F)

\* (mutant) only the first IR successor is looked at
blockSuccessorsFirstOnly(built, F, succs) ==
    IF succs = <<>> THEN <<>>
    ELSE LET succ == MapGet(built, Head(succs), <<NullNode, NullNode>>)
         IN IF succ[1] = NullNode THEN <<>> ELSE <<succ[1]>>

\* blockAddSuccessors: the first nodes the last node of a block gets as
\* successors for the IR successors succs, in order
RECURSIVE blockSuccessors(_, _, _)
blockSuccessors(built, F, succs) ==
    IF succs = <<>> THEN <<>>
    ELSE LET S == Head(succs)
             succ == MapGet(built, S, <<NullNode, NullNode>>)
         IN (IF succ[1] = NullNode
             THEN blockSuccessors(built, F, M.funcs[F][S].succs)
             ELSE <<succ[1]>>)
            \o blockSuccessors(built, F, Tail(succs))

RECURSIVE addSuccessors(_, _, _)
addSuccessors(st, a, bs) ==
    IF bs = <<>> THEN st ELSE addSuccessors(addSuccessor(st, a, Head(bs)), a, Tail(bs))

\* (mutant) the second loop takes every built block for a return site
RECURSIVE stitchAllReturn(_, _, _, _)
stitchAllReturn(st, fr, b, rets) ==
    IF b > Len(M.funcs[fr.f]) THEN [st |-> st, rets |-> rets]
    ELSE IF b \notin DOMAIN fr.built \/ fr.built[b][1] = NullNode
    THEN stitchAllReturn(st, fr, b + 1, rets)
    ELSE LET ss == blockSuccessors(fr.built, fr.f, M.funcs[fr.f][b].succs)
         IN stitchAllReturn(addSuccessors(st, fr.built[b][2], ss), fr, b + 1,
                            Append(rets, fr.built[b][2]))

\* the second loop of buildFunction over the blocks from b on: the state
\* and the return sites found
RECURSIVE stitch(_, _, _, _)
stitch(st, fr, b, rets) ==
    IF b > Len(M.funcs[fr.f]) THEN [st |-> st, rets |-> rets]
    ELSE IF b \notin DOMAIN fr.built \/ fr.built[b][1] = NullNode
    THEN stitch(st, fr, b + 1, rets)
    ELSE LET ss == blockSuccessors(fr.built, fr.f, M.funcs[fr.f][b].succs)
         IN stitch(addSuccessors(st, fr.built[b][2], ss), fr, b + 1,
                   IF Len(ss) = 0 THEN Append(rets, fr.built[b][2]) ELSE rets)

\* (mutant) only the first return site is linked to the unified return node
addReturnsFirstOnly(st, rets, ret) ==
    IF rets = <<>> THEN st ELSE addSuccessor(st, Head(rets), ret)

\* the last loop of buildFunction: every return site is linked to ret
RECURSIVE addReturns(_, _, _)
addReturns(st, rets, ret) ==
    IF rets = <<>> THEN st
    ELSE addReturns(addSuccessor(st, Head(rets), ret), Tail(rets), ret)

\* buildFunction after its first loop, and the return to its caller:
\* createCallToFunction (a "callfn" frame) or build()
finishFunction(st) ==
    LET fr == Top(st)
    IN IF fr.first = NullNode THEN abort(st)
       ELSE LET r == stitch(addSuccessor(st, fr.root, fr.first), fr, 1, <<>>)
            IN IF r.rets = <<>> THEN abort(r.st)
               ELSE LET st1 == Pop(addReturns(r.st, r.rets, fr.ret))
                        st2 == [st1 EXCEPT !.built = MapPut(@, fr.f, fr.built)]
                        up == Top(st2)
                    IN IF up.t = "callfn"
                       THEN wireCall(Pop(st2), up.ctx, up.inst, up.F,
                                     up.callNode, up.returnNode)
                       ELSE SetTop(st2, [up EXCEPT !.root = fr.root])

\* (mutant) a global is not made the successor of the one before it
RECURSIVE buildGlobalsUnchained(_, _, _, _)
buildGlobalsUnchained(st, j, first, cur) ==
    IF j > M.globals THEN [st |-> st, first |-> first, cur |-> cur]
    ELSE LET n == Fresh(st)
             st1 == addNode(newNode(st, Name("", GlobalId(j))), GlobalId(j), n)
         IN buildGlobalsUnchained(st1, j + 1, IF cur # NullNode THEN first ELSE n, n)

\* buildGlobals from global j on
RECURSIVE buildGlobals(_, _, _, _)
buildGlobals(st, j, first, cur) ==
    IF j > M.globals THEN [st |-> st, first |-> first, cur |-> cur]
    ELSE LET n == Fresh(st)
             st1 == addNode(newNode(st, Name("", GlobalId(j))), GlobalId(j), n)
         IN buildGlobals(IF cur # NullNode THEN addSuccessor(st1, cur, n) ELSE st1,
                         j + 1, IF cur # NullNode THEN first ELSE n, n)

\* ------------------------------------------------------------------------
\* createCall
\* ------------------------------------------------------------------------

\* getMemAllocationFunc; "assert" stands for the failed assertion on realloc
getMemAllocationFunc(f) ==
    CASE f = "malloc" -> "MALLOC"
      [] f = "calloc" -> "CALLOC"
      [] f = "alloca" -> "ALLOCA"
      [] f = "realloc" -> "assert"
      [] OTHER -> "NONEMEM"

\* the branch createCall takes for a direct call of f
directCallKind(f) ==
    IF getMemAllocationFunc(f) = "assert" THEN "abort"
    ELSE IF getMemAllocationFunc(f) # "NONEMEM" \/ Len(M.funcs[f]) = 0 THEN "alloc"
    ELSE IF isIntrinsic(f) THEN "abort"
    ELSE "function"

\* the pointers the loop of createCall over several targets skips
skipTarget(ptr) == isNull(ptr)

\* the function a pointer of a called value stands for
targetFunction(ptr) == getUserData(ptr.target)[1]

\* ------------------------------------------------------------------------
\* The builder's steps
\* ------------------------------------------------------------------------

InitRD ==
    /\ M \in Modules
    /\ rdg = EmptyGraph
    /\ nodes_map = EmptyMap
    /\ subgraphs_map = EmptyMap
    /\ mapping = EmptyMap
    /\ stack = <<>>
    /\ status = "init"
    /\ rd_root = NullNode
    /\ built_blocks = EmptyMap
    /\ PAIdle

TopIs(t) == status = "running" /\ stack # <<>> /\ stack[Len(stack)].t = t

\* the instruction the innermost buildBlock is at
CurInst == InstOf(InstId(Top(Cur).f, Top(Cur).b, Top(Cur).i))

AtInst == TopIs("block") /\ Top(Cur).i <= Len(M.funcs[Top(Cur).f][Top(Cur).b].insts)

\* build() up to the first block of main
Build ==
    /\ status = "init"
    /\ IF "main" \notin DOMAIN M.funcs
       THEN Becomes(abort(Cur))
       ELSE LET r == buildGlobals([Cur EXCEPT !.status = "running"], 1, NullNode, NullNode)
            IN Becomes(enterFunction(
                   Push(r.st, [t |-> "build", first |-> r.first, second |-> r.cur,
                               root |-> NullNode]), "main"))
    /\ UNCHANGED pavars

\* buildFunction calls buildBlock for its next block: the start node
BuildBlockStart ==
    /\ TopIs("func")
    /\ Top(Cur).bi <= Len(M.funcs[Top(Cur).f])
    /\ LET fr == Top(Cur)
           node == Fresh(Cur)
       IN Becomes(Push(newNode(Cur, Name("PHI start block", InstId(fr.f, fr.bi, 0))),
                       [t |-> "block", f |-> fr.f, b |-> fr.bi, i |-> 1, node |-> node,
                        prev_node |-> NullNode, first |-> node]))
    /\ UNCHANGED pavars

\* buildBlock on an instruction that is no call (a debug call included)
BlockInst ==
    /\ AtInst
    /\ CurInst.op \in {"alloca", "store", "ret", "dbg", "other"}
    /\ LET st == beginInst(Cur)
           inst == InstId(Top(Cur).f, Top(Cur).b, Top(Cur).i)
       IN CASE CurInst.op \in {"alloca", "ret"} ->
                  Becomes(endInst(createAlloc(st, inst), Fresh(st)))
            [] CurInst.op = "store" ->
                  \E ub \in {"crash", "continue"} :
                      LET st1 == createStore(st, inst, ub)
                      IN Becomes(IF st1.status = "running"
                                 THEN endInst(st1, Fresh(st)) ELSE st1)
            [] OTHER -> Becomes(endInst(st, Top(st).node))
    /\ UNCHANGED pavars

\* buildBlock on a direct call
BlockCall ==
    /\ AtInst
    /\ CurInst.op = "call"
    /\ LET st == beginInst(Cur)
           inst == InstId(Top(Cur).f, Top(Cur).b, Top(Cur).i)
           kind == directCallKind(CurInst.callee)
       IN CASE kind = "abort" -> Becomes(abort(st))
            [] kind = "alloc" ->
                  Becomes(endCall(createAlloc(st, inst), Fresh(st), Fresh(st)))
            [] OTHER ->
                  Becomes(createCallToFunction(st, inst, CurInst.callee, "direct", "crash"))
    /\ UNCHANGED pavars

\* buildBlock on a call through a pointer
BlockCallPtr ==
    /\ AtInst
    /\ CurInst.op = "callptr"
    /\ LET st == beginInst(Cur)
           inst == InstId(Top(Cur).f, Top(Cur).b, Top(Cur).i)
           pts == CurInst.pts
       IN IF pts = <<>> THEN Becomes(abort(st))
          ELSE IF Len(pts) > 1
          THEN LET call_funcptr == Fresh(st)
                   ret_call == call_funcptr + 1
                   st1 == newNode(st, Name("funcptr", inst))
                   st2 == newNode(st1, Name("RETURN", inst))
               IN Becomes(Push(addNode(st2, inst, call_funcptr),
                               [t |-> "callptr", inst |-> inst, ptrs |-> pts,
                                call_funcptr |-> call_funcptr, ret_call |-> ret_call]))
          ELSE \E ub \in {"crash", "late"} :
                  Becomes(createCallToFunction(st, inst, targetFunction(pts[1]),
                                               "single", ub))
    /\ UNCHANGED pavars

\* one turn of createCall's loop over the targets of a pointer
CallPtrTarget ==
    /\ TopIs("callptr")
    /\ Top(Cur).ptrs # <<>>
    /\ LET fr == Top(Cur)
           ptr == Head(fr.ptrs)
           st == SetTop(Cur, [fr EXCEPT !.ptrs = Tail(@)])
       IN IF skipTarget(ptr) THEN Becomes(st)
          ELSE \E ub \in {"crash", "late"} :
                  Becomes(createCallToFunction(st, fr.inst, targetFunction(ptr),
                                               "multi", ub))
    /\ UNCHANGED pavars

\* the end of that loop: createCall returns the pair to buildBlock
CallPtrEnd ==
    /\ TopIs("callptr")
    /\ Top(Cur).ptrs = <<>>
    /\ LET fr == Top(Cur)
       IN Becomes(endCall(Pop(Cur), fr.call_funcptr, fr.ret_call))
    /\ UNCHANGED pavars

\* buildBlock returns its pair to buildFunction
BlockEnd ==
    /\ TopIs("block")
    /\ ~AtInst
    /\ LET fr == Top(Cur)
           st == Pop(Cur)
           up == Top(st)
       IN Becomes(SetTop(st, [up EXCEPT
                     !.built = IF fr.first # NullNode
                               THEN MapPut(@, fr.b, <<fr.first, fr.node>>) ELSE @,
                     !.first = IF fr.first # NullNode /\ @ = NullNode THEN fr.first ELSE @,
                     !.bi = @ + 1]))
    /\ UNCHANGED pavars

\* buildFunction after its last block
BuildFunctionEnd ==
    /\ TopIs("func")
    /\ Top(Cur).bi > Len(M.funcs[Top(Cur).f])
    /\ Becomes(finishFunction(Cur))
    /\ UNCHANGED pavars

\* build() after buildFunction(main)
BuildEnd ==
    /\ TopIs("build")
    /\ LET fr == Top(Cur)
           st == IF fr.first # NullNode THEN addSuccessor(Cur, fr.second, fr.root) ELSE Cur
       IN Becomes([st EXCEPT !.stack = <<>>, !.status = "done",
                             !.root = IF fr.first # NullNode THEN fr.first ELSE fr.root])
    /\ UNCHANGED pavars

NextRD ==
    \/ Build
    \/ BuildBlockStart
    \/ BlockInst
    \/ BlockCall
    \/ BlockCallPtr
    \/ CallPtrTarget
    \/ CallPtrEnd
    \/ BlockEnd
    \/ BuildFunctionEnd
    \/ BuildEnd

SpecRD == InitRD /\ [][NextRD]_vars

\* ------------------------------------------------------------------------
\* Claims about LLVMRDBuilder
\* ------------------------------------------------------------------------

RDNodes == 1..rdg.n

Succ(n) == Range(rdg.succ[n])

RDEdges == {e \in RDNodes \X RDNodes : e[2] \in Succ(e[1])}

\* the nodes reachable from the nodes S along the edges E
RECURSIVE Closure(_, _)
Closure(S, E) ==
    LET N == S \cup {e[2] : e \in {x \in E : x[1] \in S}}
    IN IF N = S THEN S ELSE Closure(N, E)

Prefix(n) == rdg.name[n].prefix

\* the function a node was built for ("@global" for the node of a global)
NodeFunc(n) == rdg.name[n].v[1]

HasBody(F) == F \in DOMAIN M.funcs /\ Len(M.funcs[F]) > 0

Bodies == {F \in DOMAIN M.funcs : Len(M.funcs[F]) > 0}

\* the functions whose buildFunction has returned
Built == DOMAIN built_blocks

BlocksOf(F) == 1..Len(M.funcs[F])

IRSuccs(F, b) == M.funcs[F][b].succs

\* a block none of whose instructions emits an RDNode
EmptyBlock(F, b) ==
    \A i \in 1..Len(M.funcs[F][b].insts) : M.funcs[F][b].insts[i].op \in {"other", "dbg"}

\* the functions an instruction is wired to by createCallToFunction
CallTargets(ins) ==
    CASE ins.op = "call" ->
            IF directCallKind(ins.callee) = "function" THEN {ins.callee} ELSE {}
      [] ins.op = "callptr" ->
            IF Len(ins.pts) > 1
            THEN {targetFunction(p) : p \in {q \in Range(ins.pts) : ~skipTarget(q)}}
            ELSE {targetFunction(p) : p \in Range(ins.pts)}
      [] OTHER -> {}

\* every call of block b goes to functions of R only, and to one at least
BlockCompletes(F, b, R) ==
    \A i \in 1..Len(M.funcs[F][b].insts) :
        LET ins == M.funcs[F][b].insts[i]
        IN /\ CallTargets(ins) \subseteq R
           /\ ins.op = "callptr" => CallTargets(ins) # {}

\* the blocks of F reachable from its entry block through the blocks of Good
RECURSIVE IRReach(_, _, _)
IRReach(F, S, Good) ==
    LET N == S \cup {b \in Good : \E a \in S : b \in Range(IRSuccs(F, a))}
    IN IF N = S THEN S ELSE IRReach(F, N, Good)

\* F has a path from its entry to a block without successor on which every
\* call goes to functions of R
ReturnsGiven(F, R) ==
    LET Good == {b \in BlocksOf(F) : BlockCompletes(F, b, R)}
    IN /\ 1 \in Good
       /\ \E b \in IRReach(F, {1}, Good) : IRSuccs(F, b) = <<>>

\* the functions that can return: the least set closed under ReturnsGiven
RECURSIVE CanReturnFrom(_)
CanReturnFrom(R) ==
    LET N == R \cup {F \in Bodies : ReturnsGiven(F, R)}
    IN IF N = R THEN R ELSE CanReturnFrom(N)

CanReturn == CanReturnFrom({})

\* in every built function every block is reachable from the entry block
\* and every call can return
LiveModule ==
    \A F \in Built :
        /\ IRReach(F, {1}, BlocksOf(F)) = BlocksOf(F)
        /\ \A b \in BlocksOf(F) : BlockCompletes(F, b, CanReturn)

\* C4 (successor closure): after build() has returned, every RDNode created
\* is reachable by successor edges from the returned root.
C4_AllReachable ==
    status = "done" => Closure({rd_root}, RDEdges) = RDNodes

\* C4, amended: ... in a module where every basic block of every built
\* function is reachable from its entry block and every call can return.
C4_LiveReachable ==
    (status = "done" /\ LiveModule) => Closure({rd_root}, RDEdges) = RDNodes

\* build() has returned on such a module with main, f and g built, a call
\* through a pointer with several targets and a recursive call
C4_Witness ==
    /\ status = "done"
    /\ LiveModule
    /\ Built = {"main", "f", "g"}
    /\ \E n \in RDNodes : Prefix(n) = "funcptr"
    /\ \E b \in BlocksOf("f") : \E i \in 1..Len(M.funcs["f"][b].insts) :
          M.funcs["f"][b].insts[i] = Call("f")

\* the entry node of the function a node was built for
EntryOf(n) == MapGet(subgraphs_map, NodeFunc(n), [root |-> NullNode]).root

\* the edges from a unified return node to the return node of a call site
ReturnEdges ==
    {e \in RDEdges : Prefix(e[1]) = "RET (unified) " /\ Prefix(e[2]) = "RET"}

\* the nodes reachable from the root along the edges E without passing x
ReachAvoiding(x, E) ==
    IF rd_root = x THEN {}
    ELSE Closure({rd_root}, {e \in E : e[1] # x /\ e[2] # x})

\* C5 (dominance): every successor path from the root to a node built for a
\* function F passes through F's entry node.
C5_EntryDominates ==
    status = "done" =>
        \A n \in RDNodes :
            (NodeFunc(n) \in Built /\ n # EntryOf(n)) =>
                n \notin ReachAvoiding(EntryOf(n), RDEdges)

\* the return edges that enter the body of F
ReturnEdgesInto(F) == {e \in ReturnEdges : NodeFunc(e[2]) = F}

\* C5, amended: every successor path from the root to a node built for a
\* function F passes through F's entry node, unless it enters F's body
\* along the edge from a callee's unified return node to the return node of
\* a call site in F.
C5_EntryDominatesCalls ==
    status = "done" =>
        \A n \in RDNodes :
            (NodeFunc(n) \in Built /\ n # EntryOf(n)) =>
                n \notin ReachAvoiding(EntryOf(n), RDEdges \ ReturnEdgesInto(NodeFunc(n)))

\* build() has returned, g is called from main and from f, and a node of
\* f's body is reached from the root around f's entry along a return edge
\* of g, and through f's entry without the return edges into f
C5_Witness ==
    /\ status = "done"
    /\ Built = {"main", "f", "g"}
    /\ \E n \in RDNodes :
          /\ NodeFunc(n) = "f"
          /\ n # EntryOf(n)
          /\ n \in ReachAvoiding(EntryOf(n), RDEdges)
    /\ \E n \in RDNodes :
          /\ NodeFunc(n) = "f"
          /\ n # EntryOf(n)
          /\ n \in Closure({rd_root}, RDEdges \ ReturnEdgesInto("f"))

RECURSIVE SeqSum(_)
SeqSum(s) == IF s = <<>> THEN 0 ELSE Head(s) + SeqSum(Tail(s))

\* one visit of an instruction and the RDNodes it can create
WorkOfInst(ins) ==
    CASE ins.op \in {"alloca", "store", "ret"} -> 2
      [] ins.op = "call" -> 3
      [] ins.op = "callptr" -> 3 + 2 * Len(ins.pts)
      [] OTHER -> 1

WorkOfBlock(blk) ==
    1 + SeqSum([i \in 1..Len(blk.insts) |-> WorkOfInst(blk.insts[i])])

\* building F once: its two nodes and its blocks
WorkOfFunction(F) ==
    2 + SeqSum([b \in 1..Len(M.funcs[F]) |-> WorkOfBlock(M.funcs[F][b])])

RECURSIVE WorkOfFunctions(_)
WorkOfFunctions(S) ==
    IF S = {} THEN 0
    ELSE LET F == CHOOSE x \in S : TRUE
         IN WorkOfFunction(F) + WorkOfFunctions(S \ {F})

\* the nodes and instruction visits of a build that builds every function
\* once (and the two nodes of a function that is a null pointer)
WorkBound == M.globals + WorkOfFunctions(DOMAIN M.funcs) + 2

\* the pointers the loops of createCall in progress have not looked at
PtrsLeft ==
    SeqSum([k \in 1..Len(stack) |->
               IF stack[k].t = "callptr" THEN Len(stack[k].ptrs) ELSE 0])

\* the nodes made and the instructions visited so far
WorkDone == rdg.n + Cardinality(DOMAIN mapping)

\* what is left to do, in lexicographic order; the first component is
\* bounded from below by -WorkBound
BuildRank ==
    << 0 - WorkDone,
       Len(stack),
       PtrsLeft,
       IF status \in {"init", "running"} THEN 1 ELSE 0 >>

RECURSIVE LexLess(_, _)
LexLess(a, b) ==
    /\ a # <<>>
    /\ \/ Head(a) < Head(b)
       \/ Head(a) = Head(b) /\ LexLess(Tail(a), Tail(b))

OneEntryPerFunction ==
    \A F \in DOMAIN M.funcs :
        Cardinality({n \in RDNodes : rdg.name[n] = Name("ENTRY ", FuncId(F))}) <= 1

\* the call nodes createCallToFunction made (each follows its return node)
CallNodes ==
    {c \in RDNodes : /\ c > 1
                     /\ Prefix(c) = ""
                     /\ Prefix(c - 1) = "RET"
                     /\ rdg.name[c].v = rdg.name[c - 1].v}

\* the call node c and its return node are wired to the one subgraph of F
WiredTo(c, F) ==
    /\ F \in DOMAIN subgraphs_map
    /\ rdg.name[subgraphs_map[F].root] = Name("ENTRY ", FuncId(F))
    /\ rdg.name[subgraphs_map[F].ret] = Name("RET (unified) ", FuncId(F))
    /\ rdg.succ[c] = <<subgraphs_map[F].root>>
    /\ (c - 1) \in Succ(subgraphs_map[F].ret)

CallSitesShare ==
    status = "done" =>
        \A c \in CallNodes : \E F \in CallTargets(InstOf(rdg.name[c].v)) : WiredTo(c, F)

\* the innermost frame is one a step of the builder goes on from
HasStep == stack # <<>> /\ stack[Len(stack)].t \in {"build", "func", "block", "callptr"}

\* C6 (recursion, sharing): build() terminates also on recursive call
\* graphs: every step lowers a rank that is bounded from below, and a build
\* that has not ended has a step to take; a function is
\* built at most once, and every call site of it is wired to the one
\* (root, ret) pair recorded for it.
C6_BuiltOnce ==
    /\ [][LexLess(BuildRank', BuildRank)]_vars
    /\ [](WorkDone <= WorkBound)
    /\ []OneEntryPerFunction
    /\ []CallSitesShare
    /\ [](status = "running" => HasStep)

\* build() has returned; f calls itself and is called from main as well
C6_Witness ==
    /\ status = "done"
    /\ "f" \in DOMAIN subgraphs_map
    /\ \E c \in CallNodes : NodeFunc(c) = "f" /\ WiredTo(c, "f")
    /\ \E c \in CallNodes : NodeFunc(c) = "main" /\ WiredTo(c, "f")

StartOf(F, b) == built_blocks[F][b][1]

LastOf(F, b) == built_blocks[F][b][2]

StoreNodes ==
    {n \in RDNodes : /\ Prefix(n) = ""
                     /\ NodeFunc(n) # "@global"
                     /\ InstOf(rdg.name[n].v).op = "store"}

\* C8 (strong update): every def-site of a store has the strong-update flag
\* set exactly when the points-to set of the address has one element,
\* whatever that element is and however many def-sites were recorded.
C8_StrongFlag ==
    \A n \in StoreNodes : \A d \in rdg.defs[n] :
        d.strong = (Len(InstOf(rdg.name[n].v).pts) = 1)

\* a store through {null, a} has its one def-site weak, a store through
\* {a} has it strong
C8_Witness ==
    /\ \E n \in StoreNodes :
          /\ Len(InstOf(rdg.name[n].v).pts) = 2
          /\ \E d \in rdg.defs[n] : rdg.defs[n] = {d} /\ ~d.strong
    /\ \E n \in StoreNodes :
          /\ Len(InstOf(rdg.name[n].v).pts) = 1
          /\ \E d \in rdg.defs[n] : d.strong

\* C9 (intrinsics): a direct call of an intrinsic other than a debug value
\* call stops the build with a fatal error and is never turned into an
\* RDNode.
C9_IntrinsicFatal ==
    \A v \in DOMAIN mapping :
        (InstOf(v).op = "call" /\ isIntrinsic(InstOf(v).callee)) =>
            /\ status = "abort"
            /\ \A n \in RDNodes : rdg.name[n].v # v

\* C10 (unknown targets): the loop of createCall over several targets
\* skips null and unknown pointers: createCallToFunction is invoked, and a
\* (call, return) pair made, for the other pointers only, and the build
\* goes on.
C10_UnknownSkipped ==
    \A n \in RDNodes :
        Prefix(n) = "funcptr" =>
            LET v == rdg.name[n].v
                called == SelectSeq(InstOf(v).pts,
                                    LAMBDA p : p.target \notin {NULLPTR, UNKNOWN_MEMORY})
            IN /\ Cardinality({r \in RDNodes : rdg.name[r] = Name("RET", v)}) <= Len(called)
               /\ status # "crash"

\* the calls through a pointer with one target, a function of the module,
\* that buildBlock has come to
SingleTargetCalls ==
    {v \in DOMAIN mapping :
        /\ InstOf(v).op = "callptr"
        /\ Len(InstOf(v).pts) = 1
        /\ targetFunction(InstOf(v).pts[1]) \in DOMAIN M.funcs}

\* the nodes named after the value v with the given prefix
NodesNamed(prefix, v) == {n \in RDNodes : rdg.name[n] = Name(prefix, v)}

\* C11 (one target): a call through a pointer with exactly one target F is
\* built as createCall builds a direct call of F: for an allocator or a
\* function without body one allocation-like node and no (call, return)
\* pair, for a function with a body the pair, and in both cases the call
\* instruction is put into nodes_map once the call is built.
C11_SingleTargetAsDirect ==
    \A v \in SingleTargetCalls :
        LET F == targetFunction(InstOf(v).pts[1])
        IN /\ directCallKind(F) = "alloc" =>
                 status # "abort" /\ NodesNamed("RET", v) = {}
           /\ status = "done" =>
                 /\ v \in DOMAIN nodes_map
                 /\ nodes_map[v] \in NodesNamed("", v)

\* the nodes buildBlock and buildFunction made (all but those of globals)
BlockBuiltNodes == {n \in RDNodes : NodeFunc(n) # "@global"}

\* C12 (no sink): once build() has returned, every RDNode produced by block
\* building has at least one successor, except the unified return node of
\* a function.
C12_HasSuccessor ==
    status = "done" =>
        \A n \in BlockBuiltNodes :
            Prefix(n) # "RET (unified) " => rdg.succ[n] # <<>>

\* ------------------------------------------------------------------------
\* More claims about PointerAnalysis
\* ------------------------------------------------------------------------

\* n lies on a cycle of the graph through another node
OnCycleWithOther(n) ==
    \E m \in PSNodes(PS) \ {n} : m \in Reach(PS, n) /\ n \in Reach(PS, m)

\* C13 (GEP in a cycle): once run() with preprocess_geps set has done its
\* preprocessing, every GEP node in a strongly connected component of more
\* than one node has offset UNKNOWN_OFFSET.
C13_GepInCycle ==
    (preprocess_geps /\ pa_pc \in {"for", "done"}) =>
        \A n \in PSNodes(PS) :
            (PS[n].kind = "GEP" /\ OnCycleWithOther(n)) => psoffset[n] = UNKNOWN_OFFSET

\* preprocessing has forced two GEPs of one cycle that had known offsets
C13_Witness ==
    /\ preprocess_geps
    /\ pa_pc = "for"
    /\ \E n, m \in PSNodes(PS) :
          /\ n # m
          /\ PS[n].kind = "GEP" /\ PS[m].kind = "GEP"
          /\ m \in Reach(PS, n) /\ n \in Reach(PS, m)
          /\ PS[n].off \notin {0, UNKNOWN_OFFSET} /\ PS[m].off # UNKNOWN_OFFSET
          /\ psoffset[n] = UNKNOWN_OFFSET /\ psoffset[m] = UNKNOWN_OFFSET

\* ------------------------------------------------------------------------
\* More claims about LLVMRDBuilder
\* ------------------------------------------------------------------------

\* the nodes of the globals
GlobalNodes == {n \in RDNodes : NodeFunc(n) = "@global"}

\* the node of the j-th global (the globals are built first, in order)
GlobalNode(j) == nodes_map[GlobalId(j)]

\* C14 (globals prelude): build() makes one RDNode per global, in
\* declaration order, each with exactly one successor: the node of the next
\* global, and for the last global the entry node of main; build() returns
\* the node of the first global, or main's entry node when the module has
\* no global.
C14_GlobalsPrelude ==
    status = "done" =>
        /\ Cardinality(GlobalNodes) = M.globals
        /\ \A j \in 1..M.globals :
              /\ GlobalId(j) \in DOMAIN nodes_map
              /\ rdg.name[GlobalNode(j)] = Name("", GlobalId(j))
              /\ rdg.succ[GlobalNode(j)] =
                    IF j < M.globals THEN <<GlobalNode(j + 1)>>
                    ELSE <<subgraphs_map["main"].root>>
        /\ rd_root = IF M.globals > 0 THEN GlobalNode(1) ELSE subgraphs_map["main"].root
        /\ rdg.name[subgraphs_map["main"].root] = Name("ENTRY ", FuncId("main"))

\* build() has returned on a module with several globals
C14_Witness ==
    /\ status = "done"
    /\ M.globals >= 2
    /\ rd_root = GlobalNode(1)
    /\ rd_root # subgraphs_map["main"].root

\* ------------------------------------------------------------------------
\* More claims about PointerAnalysis
\* ------------------------------------------------------------------------

\* every offset of a points-to set is UNKNOWN_OFFSET or at most max_offset
Saturated ==
    \A n \in PSNodes(PS) : \A p \in pointsTo[n] :
        p.offset = UNKNOWN_OFFSET \/ p.offset <= max_offset

\* the pointers of the operand of the GEP n whose offset, moved by the
\* offset of n, is known and exceeds max_offset
OverMax(n) ==
    {p \in pointsTo[PS[n].ops[1]] :
        /\ p.offset # UNKNOWN_OFFSET
        /\ psoffset[n] # UNKNOWN_OFFSET
        /\ (p.offset + psoffset[n]) % OffsetMod > max_offset}

FanOutCalls ==
    {v \in DOMAIN mapping :
        /\ InstOf(v).op = "callptr"
        /\ Len(InstOf(v).pts) = 2
        /\ \A k \in 1..2 : HasBody(targetFunction(InstOf(v).pts[k]))
        /\ targetFunction(InstOf(v).pts[1]) # targetFunction(InstOf(v).pts[2])}

\* the instructions after v in its block that emit a node
EmittingAfter(v) ==
    {i \in (v[3] + 1)..Len(M.funcs[v[1]][v[2]].insts) :
        M.funcs[v[1]][v[2]].insts[i].op \in {"alloca", "store", "ret", "call", "callptr"}}

\* the dispatch node d of v leads through a call node to the entry of F, and
\* the unified return node of F leads through a return node to the join j
FansOut(v, d, j, F) ==
    /\ F \in DOMAIN subgraphs_map
    /\ \E cn \in Succ(d) : /\ rdg.name[cn] = Name("", v)
                           /\ rdg.succ[cn] = <<subgraphs_map[F].root>>
    /\ \E rn \in Succ(subgraphs_map[F].ret) : /\ rdg.name[rn] = Name("RET", v)
                                              /\ rdg.succ[rn] = <<j>>
    /\ subgraphs_map[F].root \in Closure({d}, RDEdges)
    /\ j \in Closure({subgraphs_map[F].ret}, RDEdges)

\* C16 (fan-out): for a call through a pointer to {f, g}, two different
\* functions with bodies, the builder makes one dispatch node and one join
\* node; the dispatch node reaches the entries of f and g, their unified
\* return nodes reach the join node, and buildBlock chains the pair into
\* the block: predecessor -> dispatch, join -> following node.
C16_FanOut ==
    status = "done" =>
        \A v \in FanOutCalls :
            /\ Cardinality(NodesNamed("funcptr", v)) = 1
            /\ Cardinality(NodesNamed("RETURN", v)) = 1
            /\ \A d \in NodesNamed("funcptr", v) : \A j \in NodesNamed("RETURN", v) :
                  /\ \A k \in 1..2 : FansOut(v, d, j, targetFunction(InstOf(v).pts[k]))
                  /\ Cardinality(Succ(d)) = 2
                  /\ nodes_map[v] = d
                  /\ d \in Succ(mapping[v])
                  /\ IF EmittingAfter(v) = {} THEN LastOf(v[1], v[2]) = j
                     ELSE LET w == InstId(v[1], v[2],
                                     CHOOSE i \in EmittingAfter(v) :
                                         \A i2 \in EmittingAfter(v) : i <= i2)
                          IN rdg.succ[j] = <<nodes_map[w]>>

\* build() has returned; main calls g, then {f, g} through a pointer, then
\* returns, and f calls g as well
C16_Witness ==
    /\ status = "done"
    /\ \E v \in FanOutCalls :
          /\ v[1] = "main"
          /\ EmittingAfter(v) # {}
          /\ rdg.name[mapping[v]].prefix = "RET"
    /\ Cardinality(Succ(subgraphs_map["g"].ret)) >= 3

\* the def-sites the store node n must have when nm is nodes_map as
\* createStore leaves it: one for each pointer of the address operand that
\* is not null and whose target has an RDNode
ExpectedDefs(n, nm) ==
    LET ins == InstOf(rdg.name[n].v)
        has(p) == /\ ~isNull(p)
                  /\ MapGet(nm, getUserData(p.target), NullNode) # NullNode
    IN {[target |-> nm[getUserData(p.target)], offset |-> p.offset,
         size |-> DefSize(ins.size)] : p \in {q \in Range(ins.pts) : has(q)}}

\* the def-sites of node n without their strong-update flag
DefSitesOf(n) ==
    {[target |-> d.target, offset |-> d.offset, size |-> d.size] : d \in rdg.defs[n]}

\* C17 (def-sites of a store): createStore adds exactly one def-site
\* (RDNode of the target, offset of the pointer, size) for each pointer of
\* the address operand that is not null and whose target has an RDNode,
\* with UNKNOWN_OFFSET as size when the stored type is not sized; a target
\* without RDNode adds no def-site and does not stop the build.
C17_DefSites ==
    [][\A n \in StoreNodes' \ StoreNodes :
          /\ status' # "crash"
          /\ DefSitesOf(n)' = ExpectedDefs(n, nodes_map)']_vars

\* the instructions of block b of F that emit a node, in instruction order
EmittingInsts(F, b) ==
    SelectSeq([i \in 1..Len(M.funcs[F][b].insts) |-> InstId(F, b, i)],
              LAMBDA v : InstOf(v).op \in {"alloca", "store", "ret", "call", "callptr"})

\* the instruction v is a call through a pointer with several targets
IsFanOut(v) == InstOf(v).op = "callptr" /\ Len(InstOf(v).pts) > 1

\* the node of instruction v its predecessor is linked to: the dispatch
\* node, the call node or the one node of v
InNode(v) ==
    CHOOSE n \in RDNodes : rdg.name[n] = Name(IF IsFanOut(v) THEN "funcptr" ELSE "", v)

\* the node that is current after instruction v: the join node, the return
\* node or the one node of v
OutNode(v) ==
    IF IsFanOut(v) THEN CHOOSE n \in RDNodes : rdg.name[n] = Name("RETURN", v)
    ELSE IF NodesNamed("RET", v) # {}
    THEN CHOOSE n \in RDNodes : rdg.name[n] = Name("RET", v)
    ELSE InNode(v)

\* the node that is current before instruction <<F, b, i>>
NodeBefore(F, b, i) ==
    LET before == SelectSeq(EmittingInsts(F, b), LAMBDA v : v[3] < i)
    IN IF before = <<>>
       THEN CHOOSE n \in RDNodes : rdg.name[n] = Name("PHI start block", InstId(F, b, 0))
       ELSE OutNode(before[Len(before)])

\* the nodes of block b of F are linked in instruction order, a call node
\* to the entry of the callee and the return node from its unified return
Sequenced(F, b) ==
    LET es == EmittingInsts(F, b)
    IN /\ StartOf(F, b) = NodeBefore(F, b, 1)
       /\ LastOf(F, b) = NodeBefore(F, b, Len(M.funcs[F][b].insts) + 1)
       /\ \A k \in 1..Len(es) :
             /\ rdg.succ[NodeBefore(F, b, es[k][3])] = <<InNode(es[k])>>
             /\ InNode(es[k]) \in CallNodes =>
                   /\ WiredTo(InNode(es[k]), CHOOSE G \in CallTargets(InstOf(es[k])) : TRUE)
                   /\ OutNode(es[k]) = InNode(es[k]) - 1
                   /\ k < Len(es) => /\ InNode(es[k + 1]) \in Succ(OutNode(es[k]))
                                     /\ InNode(es[k + 1]) \notin Succ(InNode(es[k]))

\* mapping[inst] is the node that was current before inst, and no node of inst
MappedBefore ==
    \A v \in DOMAIN mapping :
        /\ mapping[v] = NodeBefore(v[1], v[2], v[3])
        /\ \A n \in RDNodes : rdg.name[n].v = v => mapping[v] # n

Stitched(F, b) ==
    {C \in DOMAIN built_blocks[F] : StartOf(F, C) \in Succ(LastOf(F, b))}

\* the built blocks of F that got no successor
ReturnSites(F) == {b \in DOMAIN built_blocks[F] : Stitched(F, b) = {}}

\* C19 (return sites): the unified return node of F has an edge from the
\* last node of exactly the built blocks of F that got no successor when
\* the blocks were connected, and from nothing else; the last node of every
\* other built block has an edge to the first node of each IR successor of
\* the block.
C19_ReturnSites ==
    \A F \in Built :
        LET ret == subgraphs_map[F].ret
        IN /\ {n \in RDNodes : ret \in Succ(n)} = {LastOf(F, b) : b \in ReturnSites(F)}
           /\ \A b \in ReturnSites(F) : rdg.succ[LastOf(F, b)] = <<ret>>
           /\ \A b \in DOMAIN built_blocks[F] \ ReturnSites(F) :
                 /\ ret \notin Succ(LastOf(F, b))
                 /\ \A C \in Range(IRSuccs(F, b)) : C \in Stitched(F, b)

\* build() has returned; a function has a block with two IR successors,
\* both linked, and one return site, the only node before its unified
\* return node
C19_Witness ==
    /\ status = "done"
    /\ \E F \in Built :
          /\ \E b \in DOMAIN built_blocks[F] :
                /\ Cardinality(Stitched(F, b)) = 2
                /\ b \in Stitched(F, b)
          /\ \E b \in ReturnSites(F) :
                {n \in RDNodes : subgraphs_map[F].ret \in Succ(n)} = {LastOf(F, b)}

\* the sequence s holds no element twice
NoDuplicates(s) == \A i, j \in 1..Len(s) : s[i] = s[j] => i = j

\* the for loop of run() is over and changed is not empty
RefillDue == pa_pc = "for" /\ pa_idx > Len(to_process) /\ changed # <<>>

\* C20 (work-list invariant): in every iteration of run() changed holds
\* each node at most once and only nodes of the current to_process that the
\* for loop has come to; whenever changed is not empty at the end of an
\* iteration the next to_process is not empty and has at least as many
\* elements as changed, so that neither assertion after getNodes fails;
\* when run() has returned, to_process and changed are both empty.
C20_WorkList ==
    /\ [](pa_pc = "for" =>
            /\ NoDuplicates(changed)
            /\ NoDuplicates(to_process)
            /\ Range(changed) \subseteq {to_process[i] : i \in 1..(pa_idx - 1)})
    /\ [][RefillDue => /\ to_process' # <<>>
                       /\ Len(to_process') >= Len(changed)
                       /\ Range(changed) \subseteq Range(to_process')
                       /\ pa_pc' = "for"]_vars
    /\ [](pa_pc # "assert_failed")
    /\ [](pa_pc = "done" => to_process = <<>> /\ changed = <<>>)

\* the for loop of a later iteration is over: to_process was refilled with
\* fewer nodes than the graph has, and two of them were enqueued again
C20_Witness ==
    /\ RefillDue
    /\ Len(changed) >= 2
    /\ Len(changed) < Len(to_process)
    /\ Len(to_process) < Cardinality(Reach(PS, PSRoot))

\* ------------------------------------------------------------------------
\* The frame of GEP preprocessing
\* ------------------------------------------------------------------------

\* the offsets the nodes of the graph were given
GivenOffsets == [n \in PSNodes(PS) |-> PS[n].off]

\* C21 (frame of GEP preprocessing): a step of run() changes the offset of
\* a node only when it is the preprocessing with preprocess_geps set, the
\* node is a GEP in a strongly connected component of more than one node,
\* and the new offset is UNKNOWN_OFFSET; GEPs in components of one node (a
\* GEP with a self-loop too), nodes that are no GEP, the points-to sets and
\* the edges are left as they were by the preprocessing; without
\* preprocess_geps no offset ever differs from the one the node was given.
C21_GepFrame ==
    /\ [][ /\ PS' = PS
           /\ \A n \in PSNodes(PS) :
                 psoffset'[n] # psoffset[n] =>
                     /\ pa_pc = "init"
                     /\ preprocess_geps
                     /\ PS[n].kind = "GEP"
                     /\ OnCycleWithOther(n)
                     /\ psoffset'[n] = UNKNOWN_OFFSET
           /\ pa_pc = "init" => pointsTo' = pointsTo /\ memory' = memory ]_vars
    /\ [](~preprocess_geps => psoffset = GivenOffsets)

\* preprocessing has run on a graph with a GEP in a one-node loop, which
\* kept its known offset, and a GEP in a loop with a phi, which lost it
C21_Witness ==
    /\ preprocess_geps
    /\ pa_pc = "for"
    /\ \E n, m \in PSNodes(PS) :
          /\ PS[n].kind = "GEP" /\ PS[m].kind = "GEP"
          /\ n \in Range(PS[n].succ) /\ ~OnCycleWithOther(n)
          /\ PS[n].off \notin {0, UNKNOWN_OFFSET} /\ psoffset[n] = PS[n].off
          /\ OnCycleWithOther(m)
          /\ PS[m].off # UNKNOWN_OFFSET /\ psoffset[m] = UNKNOWN_OFFSET

\* ------------------------------------------------------------------------
\* Functions without return site
\* ------------------------------------------------------------------------

\* buildFunction has built the last block of its function
AtFunctionEnd == TopIs("func") /\ Top(Cur).bi > Len(M.funcs[Top(Cur).f])

\* F has blocks, and each of them has an IR successor
NoExitBlock(F) == Len(M.funcs[F]) > 0 /\ \A b \in BlocksOf(F) : IRSuccs(F, b) # <<>>

\* F has no block
NoBlocks(F) == Len(M.funcs[F]) = 0

\* C22 (no return site): when every built block of F gets a successor as
\* the blocks are connected (a function that is a loop without exit), or F
\* has no block at all, buildFunction(F) stops at a failed assertion and
\* returns no graph: no node has the unified return node of F as
\* successor, a function without block has no successor of its entry
\* node either, and F is not among the functions built.
C22_NoReturnSiteAborts ==
    [][AtFunctionEnd =>
          LET fr == Top(Cur)
          IN (NoExitBlock(fr.f) \/ NoBlocks(fr.f)) =>
                /\ status' = "abort"
                /\ \A n \in 1..rdg'.n : fr.ret \notin Range(rdg'.succ[n])
                /\ NoBlocks(fr.f) => rdg'.succ[fr.root] = <<>>
                /\ fr.f \notin DOMAIN built_blocks'
                /\ stack' = stack]_vars

\* the build has stopped in buildFunction of a function called from main
\* whose only block is its own successor: the block is linked to itself
\* and nothing leads to the unified return node
C22_Witness ==
    /\ status = "abort"
    /\ Len(stack) > 2
    /\ stack[Len(stack)].t = "func"
    /\ LET fr == stack[Len(stack)]
       IN /\ fr.f # "main"
          /\ NoExitBlock(fr.f)
          /\ fr.bi > Len(M.funcs[fr.f])
          /\ \E b \in DOMAIN fr.built : fr.built[b][1] \in Succ(fr.built[b][2])
          /\ \A n \in RDNodes : fr.ret \notin Succ(n)

====
